---- MODULE Spec2Model ----
(***************************************************************************)
(* MarketView.vue: the stock list, the search filter, the selection and    *)
(* the kline chart of the market page, as a state machine.                 *)
(*                                                                         *)
(* Strings are sequences of one-character strings, so that toLowerCase()   *)
(* and includes() are computed character by character. The empty string '' *)
(* is the empty sequence. null is the string "null" for error, and the     *)
(* empty sequence for chartInstance and chartRef (a present value is a     *)
(* one-element sequence).                                                  *)
(***************************************************************************)
EXTENDS Naturals, Sequences, FiniteSets

VARIABLES
    stocks,         \* stocks.value: sequence of [symbol, name]
    searchQuery,    \* searchQuery.value
    currentSymbol,  \* currentSymbol.value
    chartInstance,  \* chartInstance.value: <<>> or <<option>>
    chartRef,       \* chartRef.value: <<>> before mount, <<"div">> after
    loading,        \* loading.value
    error,          \* error.value
    listReqs,       \* the GET /stocks/list requests issued, each a status
    klineReqs,      \* the GET /stocks/{symbol}/kline requests issued
    selectCalls,    \* number of calls of selectStock so far
    lastArg,        \* stock.symbol of the latest selectStock call
    lastRender      \* <<>> or <<[req, symbol, data]>>: the latest renderChart call

vars == <<stocks, searchQuery, currentSymbol, chartInstance, chartRef,
          loading, error, listReqs, klineReqs, selectCalls, lastArg,
          lastRender>>

\* ------------------------------------------------------------------ bounds

\* longest list the API answers with
MaxStocks == 2
\* longest kline series the API answers with
MaxRows == 2
\* selectStock calls in one run
MaxSelects == 3

\* --------------------------------------------------------------- constants

NULL == "null"
\* error.value = "无法加载股票列表" (stands for the literal of line 72)
ERR_LIST == "ERR_STOCK_LIST"
\* error.value = "无法加载K线数据" (stands for the literal of line 91)
ERR_KLINE == "ERR_KLINE_DATA"

\* ---------------------------------------------------------------- strings

\* String.prototype.toLowerCase on one character of the alphabet in use
LowerChar(c) ==
    IF c = "S" THEN "s"
    ELSE IF c = "Z" THEN "z"
    ELSE IF c = "B" THEN "b"
    ELSE c

toLowerCase(s) == [i \in 1..Len(s) |-> LowerChar(s[i])]

\* String.prototype.includes: q occurs in s as a contiguous substring
includes(s, q) ==
    \E i \in 0..Len(s) :
        /\ i + Len(q) <= Len(s)
        /\ SubSeq(s, i + 1, i + Len(q)) = q

\* ----------------------------------------------------------------- inputs

\* the stock descriptors the API may list: {symbol, name}, with symbols that
\* are non-empty identifiers; one symbol has an upper-case letter
StockUniverse ==
    { [symbol |-> <<"S", "1">>, name |-> <<"b", "z">>],
      [symbol |-> <<"z", "1">>, name |-> <<"B", "s">>] }

\* all sequences over S of length at most n
SeqsUpTo(S, n) == UNION { [1..m -> S] : m \in 0..n }

\* the answers of GET /stocks/list
StockLists == SeqsUpTo(StockUniverse, MaxStocks)

\* what the user may type into the search box
Queries == { <<>>, <<"s">>, <<"S", "1">> }

\* the time-series points the API may answer with
Rows ==
    { [date |-> "d1", open |-> 10, close |-> 12, low |-> 9, high |-> 13,
       volume |-> 100, ma20 |-> 11, vol_ma5 |-> 90, macd |-> 1, diff |-> 2,
       dea |-> 3, k |-> 50, d |-> 60, j |-> 70],
      [date |-> "d2", open |-> 22, close |-> 18, low |-> 17, high |-> 24,
       volume |-> 200, ma20 |-> 21, vol_ma5 |-> 190, macd |-> 4, diff |-> 5,
       dea |-> 6, k |-> 55, d |-> 65, j |-> 75] }

\* the answers of GET /stocks/{symbol}/kline (res.data.data)
KlineSeries == SeqsUpTo(Rows, MaxRows)

\* ------------------------------------------------------------------ state

Init ==
    /\ stocks = <<>>
    /\ searchQuery = <<>>
    /\ currentSymbol = <<>>
    /\ chartInstance = <<>>
    /\ chartRef = <<>>
    /\ loading = FALSE
    /\ error = NULL
    /\ listReqs = <<>>
    /\ klineReqs = <<>>
    /\ selectCalls = 0
    /\ lastArg = <<>>
    /\ lastRender = <<>>

\* computed filteredStocks
filteredStocks ==
    IF searchQuery = <<>> THEN stocks
    ELSE LET query == toLowerCase(searchQuery)
             Test(s) == \/ includes(s.symbol, query)
                        \/ includes(toLowerCase(s.name), query)
         IN  SelectSeq(stocks, Test)

\* chartOption with the candlestick tuple in the order [open, high, low, close]
chartOption_ohlc(symbol, data) ==
    LET dates == [i \in 1..Len(data) |-> data[i].date]
    IN  [ title     |-> symbol,
          xAxis     |-> <<dates, dates, dates, dates>>,
          klineData |-> [i \in 1..Len(data) |->
                            <<data[i].open, data[i].high,
                              data[i].low, data[i].close>>],
          ma20      |-> [i \in 1..Len(data) |-> data[i].ma20],
          volumes   |-> [i \in 1..Len(data) |-> data[i].volume],
          volColors |-> [i \in 1..Len(data) |->
                            IF data[i].close > data[i].open THEN "#ef232a"
                                                            ELSE "#14b143"],
          volMa5    |-> [i \in 1..Len(data) |-> data[i].vol_ma5],
          macd      |-> [i \in 1..Len(data) |-> data[i].macd],
          diff      |-> [i \in 1..Len(data) |-> data[i].diff],
          dea       |-> [i \in 1..Len(data) |-> data[i].dea],
          k         |-> [i \in 1..Len(data) |-> data[i].k],
          d         |-> [i \in 1..Len(data) |-> data[i].d],
          j         |-> [i \in 1..Len(data) |-> data[i].j] ]

\* renderChart(symbol, data): the option handed to setOption; title stands
\* for the title text `${symbol} K线图`
chartOption(symbol, data) ==
    LET dates     == [i \in 1..Len(data) |-> data[i].date]
        klineData == [i \in 1..Len(data) |->
                            <<data[i].open, data[i].close,
                              data[i].low, data[i].high>>]
        volumes   == [i \in 1..Len(data) |-> data[i].volume]
        volColors == [i \in 1..Len(data) |->
                            IF data[i].close > data[i].open THEN "#ef232a"
                                                            ELSE "#14b143"]
        ma20      == [i \in 1..Len(data) |-> data[i].ma20]
        volMa5    == [i \in 1..Len(data) |-> data[i].vol_ma5]
        macd      == [i \in 1..Len(data) |-> data[i].macd]
        diff      == [i \in 1..Len(data) |-> data[i].diff]
        dea       == [i \in 1..Len(data) |-> data[i].dea]
        k         == [i \in 1..Len(data) |-> data[i].k]
        d         == [i \in 1..Len(data) |-> data[i].d]
        j         == [i \in 1..Len(data) |-> data[i].j]
    IN  [ title     |-> symbol,
          xAxis     |-> <<dates, dates, dates, dates>>,
          klineData |-> klineData,
          ma20      |-> ma20,
          volumes   |-> volumes,
          volColors |-> volColors,
          volMa5    |-> volMa5,
          macd      |-> macd,
          diff      |-> diff,
          dea       |-> dea,
          k         |-> k,
          d         |-> d,
          j         |-> j ]

\* renderChart(symbol, data): the new value of chartInstance
renderChart(symbol, data) ==
    IF chartRef = <<>> THEN chartInstance
    ELSE <<chartOption(symbol, data)>>

\* loadChartData that aborts the requests still in flight before issuing its own
loadChartData_abort(symbol) ==
    /\ loading' = TRUE
    /\ error' = NULL
    /\ klineReqs' = Append(SelectSeq(klineReqs, LAMBDA q : q.status # "pending"),
                      [symbol |-> symbol, status |-> "pending"])

\* loadChartData(symbol) up to its await: the request is issued
loadChartData(symbol) ==
    /\ loading' = TRUE
    /\ error' = NULL
    /\ klineReqs' = Append(klineReqs,
                      [symbol |-> symbol, status |-> "pending"])

\* selectStock that reuses a series already loaded for the symbol
selectStock_cached(stock) ==
    /\ selectCalls' = selectCalls + 1
    /\ lastArg' = stock.symbol
    /\ IF currentSymbol = stock.symbol
       THEN UNCHANGED <<currentSymbol, loading, error, klineReqs>>
       ELSE /\ currentSymbol' = stock.symbol
            /\ IF \E r \in 1..Len(klineReqs) :
                     /\ klineReqs[r].symbol = stock.symbol
                     /\ klineReqs[r].status = "ok"
               THEN UNCHANGED <<loading, error, klineReqs>>
               ELSE loadChartData(stock.symbol)

\* selectStock(stock) up to the await inside loadChartData
selectStock(stock) ==
    /\ selectCalls' = selectCalls + 1
    /\ lastArg' = stock.symbol
    /\ IF currentSymbol = stock.symbol
       THEN UNCHANGED <<currentSymbol, loading, error, klineReqs>>
       ELSE /\ currentSymbol' = stock.symbol
            /\ loadChartData(stock.symbol)

\* ---------------------------------------------------------------- actions

\* onMounted: the template refs are set and fetchStocks() issues its request
onMounted ==
    /\ listReqs = <<>>
    /\ chartRef = <<>>
    /\ chartRef' = <<"div">>
    /\ listReqs' = <<"pending">>
    /\ UNCHANGED <<stocks, searchQuery, currentSymbol, chartInstance, loading,
                   error, klineReqs, selectCalls, lastArg, lastRender>>

\* fetchStocks that selects the last element of the list
fetchStocksOk_last(list) ==
    /\ listReqs = <<"pending">>
    /\ listReqs' = <<"ok">>
    /\ stocks' = list
    /\ IF Len(list) > 0
       THEN selectStock(list[Len(list)])
       ELSE UNCHANGED <<currentSymbol, loading, error, klineReqs,
                        selectCalls, lastArg>>
    /\ UNCHANGED <<searchQuery, chartInstance, chartRef, lastRender>>

\* fetchStocks: the list request answers with res.data = list
fetchStocksOk(list) ==
    /\ listReqs = <<"pending">>
    /\ listReqs' = <<"ok">>
    /\ stocks' = list
    /\ IF Len(list) > 0
       THEN selectStock(list[1])
       ELSE UNCHANGED <<currentSymbol, loading, error, klineReqs,
                        selectCalls, lastArg>>
    /\ UNCHANGED <<searchQuery, chartInstance, chartRef, lastRender>>

\* fetchStocks that asks again when the list request fails
fetchStocksFail_retry ==
    /\ listReqs = <<"pending">>
    /\ listReqs' = <<"failed", "pending">>
    /\ error' = ERR_LIST
    /\ UNCHANGED <<stocks, searchQuery, currentSymbol, chartInstance, chartRef,
                   loading, klineReqs, selectCalls, lastArg, lastRender>>

\* fetchStocks: the list request fails
fetchStocksFail ==
    /\ listReqs = <<"pending">>
    /\ listReqs' = <<"failed">>
    /\ error' = ERR_LIST
    /\ UNCHANGED <<stocks, searchQuery, currentSymbol, chartInstance, chartRef,
                   loading, klineReqs, selectCalls, lastArg, lastRender>>

\* v-model: the user edits the search box (the @input handler filterStocks is
\* not defined in the script, so the event changes nothing else)
input(q) ==
    /\ chartRef # <<>>
    /\ q # searchQuery
    /\ searchQuery' = q
    /\ UNCHANGED <<stocks, currentSymbol, chartInstance, chartRef, loading,
                   error, listReqs, klineReqs, selectCalls, lastArg,
                   lastRender>>

\* @click on the i-th item of the rendered list
click(i) ==
    /\ chartRef # <<>>
    /\ i \in 1..Len(filteredStocks)
    /\ selectCalls < MaxSelects
    /\ selectStock(filteredStocks[i])
    /\ UNCHANGED <<stocks, searchQuery, chartInstance, chartRef, listReqs,
                   lastRender>>

\* loadChartData after its await: request r answers with res.data.data = data,
\* an array of points as the API documents it; try and finally run in one step
loadChartDataOk(r, data) ==
    /\ r \in 1..Len(klineReqs)
    /\ klineReqs[r].status = "pending"
    /\ klineReqs' = [klineReqs EXCEPT ![r].status = "ok"]
    /\ chartInstance' = renderChart(klineReqs[r].symbol, data)
    /\ lastRender' = <<[req |-> r, symbol |-> klineReqs[r].symbol,
                         data |-> data]>>
    /\ loading' = FALSE
    /\ UNCHANGED <<stocks, searchQuery, currentSymbol, chartRef, error,
                   listReqs, selectCalls, lastArg>>

\* loadChartData that asks again when request r fails
loadChartDataFail_retry(r) ==
    /\ r \in 1..Len(klineReqs)
    /\ klineReqs[r].status = "pending"
    /\ Len(klineReqs) < MaxSelects
    /\ klineReqs' = Append([klineReqs EXCEPT ![r].status = "failed"],
                      [symbol |-> klineReqs[r].symbol, status |-> "pending"])
    /\ error' = ERR_KLINE
    /\ loading' = TRUE
    /\ UNCHANGED <<stocks, searchQuery, currentSymbol, chartInstance, chartRef,
                   listReqs, selectCalls, lastArg, lastRender>>

\* loadChartData after its await: request r fails
loadChartDataFail(r) ==
    /\ r \in 1..Len(klineReqs)
    /\ klineReqs[r].status = "pending"
    /\ klineReqs' = [klineReqs EXCEPT ![r].status = "failed"]
    /\ error' = ERR_KLINE
    /\ loading' = FALSE
    /\ UNCHANGED <<stocks, searchQuery, currentSymbol, chartInstance, chartRef,
                   listReqs, selectCalls, lastArg, lastRender>>

Next ==
    \/ onMounted
    \/ \E list \in StockLists : fetchStocksOk(list)
    \/ fetchStocksFail
    \/ \E q \in Queries : input(q)
    \/ \E i \in 1..MaxStocks : click(i)
    \/ \E r \in 1..Len(klineReqs), data \in KlineSeries :
            loadChartDataOk(r, data)
    \/ \E r \in 1..Len(klineReqs) : loadChartDataFail(r)

Spec == Init /\ [][Next]_vars

\* ------------------------------------------------------- helper predicates

\* some kline request is in flight
InFlight == \E r \in 1..Len(klineReqs) : klineReqs[r].status = "pending"

\* the list request failed
ListFailed == \E i \in 1..Len(listReqs) : listReqs[i] = "failed"

\* the step is a call of selectStock
SelectStep == selectCalls' # selectCalls

\* the request a call of selectStock(stock) with stock.symbol = sym issues
NewRequest(sym) == [symbol |-> sym, status |-> "pending"]

\* ------------------------------------------------------------------ claims

\* C1: filteredStocks is a case-insensitive substring filter: with a non-empty
\* query it holds exactly the stocks, in list order, whose symbol or name
\* contains the query when both sides are compared ignoring letter case; with
\* an empty query it is the whole list.
C1_FilterIgnoresCase ==
    LET q == toLowerCase(searchQuery)
        Match(st) == \/ includes(toLowerCase(st.symbol), q)
                     \/ includes(toLowerCase(st.name), q)
    IN  filteredStocks = IF searchQuery = <<>> THEN stocks
                         ELSE SelectSeq(stocks, Match)

\* C2 as stated: every call of selectStock(stock) issues a new kline request
\* for stock.symbol, whatever the value of currentSymbol.
C2_EverySelectFetches ==
    [][SelectStep => klineReqs' = Append(klineReqs, NewRequest(lastArg'))]_vars

\* C2 as amended: a call of selectStock(stock) with stock.symbol different from
\* currentSymbol issues a new kline request for stock.symbol, whatever the
\* outcome of earlier requests; a call with stock.symbol equal to currentSymbol
\* issues none.
C2_SelectFetchesUnlessCurrent ==
    [][SelectStep =>
         IF lastArg' = currentSymbol
         THEN klineReqs' = klineReqs
         ELSE klineReqs' = Append(klineReqs, NewRequest(lastArg'))]_vars

\* C2 witness: a symbol whose series was loaded before is selected again and
\* its request is in flight again.
C2_Witness ==
    \E r \in 1..Len(klineReqs) :
        /\ r < Len(klineReqs)
        /\ klineReqs[r].status = "ok"
        /\ klineReqs[r].symbol = klineReqs[Len(klineReqs)].symbol
        /\ klineReqs[Len(klineReqs)].status = "pending"

\* C3: when a kline request fails, error becomes the kline error string,
\* loading becomes false, renderChart is not called, stocks and currentSymbol
\* are unchanged and no request is issued.
C3_KlineFailure ==
    [][(\E r \in 1..Len(klineReqs) :
            /\ klineReqs[r].status = "pending"
            /\ klineReqs'[r].status = "failed")
       => /\ error' = ERR_KLINE
          /\ loading' = FALSE
          /\ chartInstance' = chartInstance
          /\ lastRender' = lastRender
          /\ stocks' = stocks
          /\ currentSymbol' = currentSymbol
          /\ Len(klineReqs') = Len(klineReqs)
          /\ listReqs' = listReqs]_vars

\* C3 witness: a kline request has failed after a chart was rendered.
C3_Witness ==
    /\ error = ERR_KLINE
    /\ chartInstance # <<>>
    /\ \E r \in 1..Len(klineReqs) : klineReqs[r].status = "failed"

\* C4: when the list request fails, error is the list error string, stocks
\* stays empty, currentSymbol stays empty, loading stays false, no kline
\* request is ever issued and the list request is not issued again.
C4_ListFailure ==
    [](ListFailed =>
         /\ error = ERR_LIST
         /\ stocks = <<>>
         /\ currentSymbol = <<>>
         /\ loading = FALSE
         /\ klineReqs = <<>>
         /\ selectCalls = 0
         /\ listReqs = <<"failed">>)

\* C4 witness: the list request failed and the user went on typing.
C4_Witness == ListFailed /\ searchQuery # <<>>

\* C5: renderChart reshapes the series into parallel arrays: each array has
\* the length of data, its i-th element is taken from data[i] alone, and all
\* four x-axes carry the dates array.
C5_ParallelArrays ==
    (lastRender # <<>> /\ chartInstance # <<>>) =>
        LET data == lastRender[1].data
            o    == chartInstance[1]
            n    == Len(data)
        IN  /\ \A x \in 1..4 :
                /\ Len(o.xAxis[x]) = n
                /\ \A i \in 1..n : o.xAxis[x][i] = data[i].date
            /\ Len(o.klineData) = n /\ Len(o.volumes) = n
            /\ Len(o.volColors) = n /\ Len(o.ma20) = n /\ Len(o.volMa5) = n
            /\ Len(o.macd) = n /\ Len(o.diff) = n /\ Len(o.dea) = n
            /\ Len(o.k) = n /\ Len(o.d) = n /\ Len(o.j) = n
            /\ \A i \in 1..n :
                /\ o.klineData[i] = <<data[i].open, data[i].close,
                                      data[i].low, data[i].high>>
                /\ o.volumes[i] = data[i].volume
                /\ o.volColors[i] = (IF data[i].close > data[i].open
                                     THEN "#ef232a" ELSE "#14b143")
                /\ o.ma20[i] = data[i].ma20
                /\ o.volMa5[i] = data[i].vol_ma5
                /\ o.macd[i] = data[i].macd
                /\ o.diff[i] = data[i].diff
                /\ o.dea[i] = data[i].dea
                /\ o.k[i] = data[i].k
                /\ o.d[i] = data[i].d
                /\ o.j[i] = data[i].j

\* C5 witness: a chart rendered from a series of two different points.
C5_Witness ==
    /\ chartInstance # <<>>
    /\ lastRender # <<>>
    /\ Len(lastRender[1].data) >= 2
    /\ lastRender[1].data[1] # lastRender[1].data[2]

\* C6: a kline request is issued only by a selectStock call, at most one per
\* call; a request in flight is never cancelled or merged by another
\* selection; a resolved request is never issued again; the list request is
\* issued exactly once, on mount.
C6_RequestPerClick ==
    /\ [](Len(listReqs) = IF chartRef = <<>> THEN 0 ELSE 1)
    /\ [][/\ klineReqs' # klineReqs /\ Len(klineReqs') # Len(klineReqs)
             => /\ SelectStep
                /\ klineReqs' = Append(klineReqs, NewRequest(lastArg'))
          /\ SelectStep => /\ selectCalls' = selectCalls + 1
                           /\ SubSeq(klineReqs', 1, Len(klineReqs)) = klineReqs
          /\ Len(klineReqs') >= Len(klineReqs)
          /\ \A r \in 1..Len(klineReqs) :
                /\ klineReqs'[r].symbol = klineReqs[r].symbol
                /\ klineReqs[r].status # "pending"
                     => klineReqs'[r] = klineReqs[r]
                /\ klineReqs'[r].status \in {klineReqs[r].status, "ok", "failed"}
          /\ listReqs # <<>> /\ listReqs[1] # "pending"
                => listReqs' = listReqs]_vars

\* C6 witness: the first request is still in flight after two later
\* selections, one of which has failed.
C6_Witness ==
    /\ Len(klineReqs) = 3
    /\ klineReqs[1].status = "pending"
    /\ \E r \in 2..3 : klineReqs[r].status = "failed"

\* C7: loading is true if and only if at least one kline request is in flight.
C7_LoadingIffInFlight == loading <=> InFlight

\* C8: once no request is in flight and the latest request (the one for
\* currentSymbol) succeeded, the chart displayed was rendered for
\* currentSymbol from the answer to that request.
C8_ChartMatchesSelection ==
    (/\ ~InFlight
     /\ klineReqs # <<>>
     /\ klineReqs[Len(klineReqs)].status = "ok")
    => /\ chartInstance # <<>>
       /\ chartInstance[1].title = currentSymbol
       /\ lastRender[1].symbol = currentSymbol
       /\ lastRender[1].req = Len(klineReqs)

\* C9: once no request is in flight, error is non-null if and only if the
\* latest kline request (the one for currentSymbol) failed; error and loading
\* are never both set.
C9_ErrorReflectsSelection ==
    /\ (~InFlight /\ klineReqs # <<>>)
         => (error # NULL <=> klineReqs[Len(klineReqs)].status = "failed")
    /\ ~(error # NULL /\ loading)

\* C10: when the list request answers with a non-empty list, currentSymbol
\* becomes the symbol of its first element and exactly one kline request, for
\* that symbol, is issued; with an empty list currentSymbol stays empty, no
\* kline request is issued and error stays null. currentSymbol is always empty
\* or the symbol of an element of stocks.
C10_FirstSelection ==
    /\ [](\/ currentSymbol = <<>>
          \/ \E i \in 1..Len(stocks) : stocks[i].symbol = currentSymbol)
    /\ [][(listReqs = <<"pending">> /\ listReqs' = <<"ok">>) =>
            IF stocks' # <<>>
            THEN /\ currentSymbol' = stocks'[1].symbol
                 /\ klineReqs' = <<NewRequest(stocks'[1].symbol)>>
            ELSE /\ currentSymbol' = <<>>
                 /\ klineReqs' = <<>>
                 /\ error' = NULL]_vars

\* C10 witness: a list of two different stocks was loaded and the first one
\* is selected with its single request in flight.
C10_Witness ==
    /\ Len(stocks) = 2
    /\ stocks[1].symbol # stocks[2].symbol
    /\ currentSymbol = stocks[1].symbol
    /\ klineReqs = <<NewRequest(stocks[1].symbol)>>

====
